---- MODULE Spec2Model ----
(***************************************************************************)
(* Model of src/lib/auth.ts: the bearer-token verification engine          *)
(* verifyGoogleToken and the helpers it uses.                              *)
(*                                                                         *)
(* Representation.  A JavaScript string that the code inspects character   *)
(* by character (a credential, a header value) is a sequence of one-       *)
(* character strings, so that split("."), startsWith and substring are     *)
(* computed.  The JavaScript values undefined and null are the one-element *)
(* sequence Undefined, whose element is not a character, so it equals no   *)
(* string.  Values the code only copies (ids, e-mails, decoded texts) are  *)
(* TLA+ strings, with "undefined" for a missing one.                       *)
(*                                                                         *)
(* A call of the async function verifyGoogleToken runs atomically from one *)
(* await to the next: Call is the synchronous prefix up to the first       *)
(* provider call, and one action per awaited promise settles it with an    *)
(* outcome chosen by the provider.                                         *)
(***************************************************************************)
EXTENDS Naturals, Sequences, FiniteSets, TLC

VARIABLES
    env,            \* process.env
    mcpDebugToken,  \* globalThis.mcpDebugToken
    call,           \* a call of verifyGoogleToken
    callB,          \* a second call, for the specifications that compare two
    envB,           \* the second call's process.env, when it runs elsewhere
    dbgB,           \* the second call's globalThis.mcpDebugToken
    fnIn,           \* the arguments of a call of one of the pure validators
    fnOut           \* its result

vars == <<env, mcpDebugToken, call, callB, envB, dbgB, fnIn, fnOut>>

-----------------------------------------------------------------------------
(* JavaScript values and string primitives *)

Undefined == <<"undefined">>

EmptyString == <<>>

\* JavaScript truthiness of a string-or-undefined value
Truthy(s) == s # Undefined /\ s # EmptyString

\* String.prototype.startsWith
StartsWith(s, prefix) ==
    Len(s) >= Len(prefix) /\ SubSeq(s, 1, Len(prefix)) = prefix

\* String.prototype.substring(n)
Substring(s, n) == SubSeq(s, n + 1, Len(s))

RECURSIVE SplitRec(_, _, _)
SplitRec(s, sep, cur) ==
    IF s = <<>> THEN <<cur>>
    ELSE IF Head(s) = sep THEN <<cur>> \o SplitRec(Tail(s), sep, <<>>)
    ELSE SplitRec(Tail(s), sep, Append(cur, Head(s)))

\* String.prototype.split with a one-character separator
Split(s, sep) == SplitRec(s, sep, <<>>)

BearerCap == <<"B","e","a","r","e","r"," ">>

BearerLow == <<"b","e","a","r","e","r"," ">>

BearerUp == <<"B","E","A","R","E","R"," ">>

Ya29 == <<"y","a","2","9",".">>

-----------------------------------------------------------------------------
(* The credentials of the model *)

\* base64 of {"aud":"http://a"}
SegAudA ==
    <<"e","y","J","h","d","W","Q","i","O","i","J","o","d","H","R","w",
      "O","i","8","v","Y","S","J","9">>

\* base64 of {"aud":"x"}
SegAudX == <<"e","y","J","h","d","W","Q","i","O","i","J","4","I","n","0">>

\* base64 of {}
SegEmptyObj == <<"e","3","0">>

\* "a.b.c": three non-empty segments, payload not base64
TokJwt == <<"a",".","b",".","c">>

\* "e30.<{"aud":"http://a"}>.s": three segments, audience is the request origin
TokJwtAud == SegEmptyObj \o <<".">> \o SegAudA \o <<".","s">>

\* "e30.<{"aud":"x"}>.s": three segments, another audience
TokJwtOther == SegEmptyObj \o <<".">> \o SegAudX \o <<".","s">>

\* base64 of {"aud":"http://a","exp":1893456000}
SegAudExp ==
    <<"e","y","J","h","d","W","Q","i","O","i","J","o","d","H","R","w",
      "O","i","8","v","Y","S","I","s","I","m","V","4","c","C","I","6",
      "M","T","g","5","M","z","Q","1","N","j","A","w","M","H","0">>

\* base64 of {"aud":["x","http://a"]}
SegAudList ==
    <<"e","y","J","h","d","W","Q","i","O","l","s","i","e","C","I","s",
      "I","m","h","0","d","H","A","6","L","y","9","h","I","l","1","9">>

\* base64 of null
SegNull == <<"b","n","V","s","b","A">>

\* "e30.<{"aud":"http://a","exp":1893456000}>.s"
TokJwtExp == SegEmptyObj \o <<".">> \o SegAudExp \o <<".","s">>

\* "e30.<{"aud":["x","http://a"]}>.s": the audience is a list
TokJwtList == SegEmptyObj \o <<".">> \o SegAudList \o <<".","s">>

\* "e30.<null>.s": the payload decodes to null
TokJwtNull == SegEmptyObj \o <<".">> \o SegNull \o <<".","s">>

\* "a..c": three parts, the middle one empty
TokEmptySeg == <<"a",".",".","c">>

\* "ya29.x": the access-token prefix, two parts
TokYa == Ya29 \o <<"x">>

\* "ya29.b.c": the access-token prefix and three parts
TokYaThree == Ya29 \o <<"b",".","c">>

\* "ya29..c": the access-token prefix, three parts, the middle one empty
TokYaEmptySeg == Ya29 \o <<".","c">>

\* "abc"
TokPlain == <<"a","b","c">>

\* "a.b"
TokTwo == <<"a",".","b">>

\* "a.b.c.d"
TokFour == <<"a",".","b",".","c",".","d">>

\* base64 of {"aud":"?"}
SegAudQ == <<"e","y","J","h","d","W","Q","i","O","i","I","/","I","n","0">>

\* base64url of {"aud":"?"}
SegAudQUrl == <<"e","y","J","h","d","W","Q","i","O","i","I","_","I","n","0">>

\* Three parts whose payload, in the standard alphabet, names the audience ?
TokJwtSlash == SegEmptyObj \o <<".">> \o SegAudQ \o <<".","s">>

\* The same payload in the URL-safe alphabet of a signed token
TokJwtUrlSafe == SegEmptyObj \o <<".">> \o SegAudQUrl \o <<".","s">>

\* Three parts whose payload is {}
TokJwtNoAud == SegEmptyObj \o <<".">> \o SegEmptyObj \o <<".","s">>

Tokens ==
    { TokJwt, TokJwtAud, TokJwtOther, TokJwtExp, TokJwtList, TokJwtNull,
      TokEmptySeg, TokYa, TokYaThree, TokYaEmptySeg, TokPlain, TokTwo, TokFour }

-----------------------------------------------------------------------------
(* atob and JSON.parse on the segments and texts of the model *)

\* atob: a length of 1 modulo 4, and a character of the URL-safe alphabet,
\* is an InvalidCharacterError
Atob(seg) ==
    IF Len(seg) % 4 = 1 THEN [threw |-> TRUE, text |-> "undefined"]
    ELSE IF \E i \in DOMAIN seg : seg[i] \in {"-", "_"}
        THEN [threw |-> TRUE, text |-> "undefined"]
    ELSE IF seg = SegAudA THEN [threw |-> FALSE, text |-> "{\"aud\":\"http://a\"}"]
    ELSE IF seg = SegAudX THEN [threw |-> FALSE, text |-> "{\"aud\":\"x\"}"]
    ELSE IF seg = SegAudExp
        THEN [threw |-> FALSE, text |-> "{\"aud\":\"http://a\",\"exp\":1893456000}"]
    ELSE IF seg = SegAudList
        THEN [threw |-> FALSE, text |-> "{\"aud\":[\"x\",\"http://a\"]}"]
    ELSE IF seg = SegAudQ THEN [threw |-> FALSE, text |-> "{\"aud\":\"?\"}"]
    ELSE IF seg = SegNull THEN [threw |-> FALSE, text |-> "null"]
    ELSE IF seg = SegEmptyObj THEN [threw |-> FALSE, text |-> "{}"]
    ELSE IF seg = <<>> THEN [threw |-> FALSE, text |-> ""]
    ELSE [threw |-> FALSE, text |-> "<bytes>"]

JsUndefined == [t |-> "undefined"]

JsString(s) == [t |-> "string", s |-> s]

JsArray(items) == [t |-> "array", items |-> items]

JsNumber == [t |-> "number"]

\* JSON.parse: null, or the decoded object's aud and exp members, or a
\* SyntaxError
JsonParse(text) ==
    IF text = "{\"aud\":\"http://a\"}"
        THEN [threw |-> FALSE, kind |-> "object", aud |-> JsString("http://a"),
              exp |-> JsUndefined]
    ELSE IF text = "{\"aud\":\"x\"}"
        THEN [threw |-> FALSE, kind |-> "object", aud |-> JsString("x"),
              exp |-> JsUndefined]
    ELSE IF text = "{\"aud\":\"http://a\",\"exp\":1893456000}"
        THEN [threw |-> FALSE, kind |-> "object", aud |-> JsString("http://a"),
              exp |-> JsNumber]
    ELSE IF text = "{\"aud\":[\"x\",\"http://a\"]}"
        THEN [threw |-> FALSE, kind |-> "object",
              aud |-> JsArray(<<"x", "http://a">>), exp |-> JsUndefined]
    ELSE IF text = "{\"aud\":\"?\"}"
        THEN [threw |-> FALSE, kind |-> "object", aud |-> JsString("?"),
              exp |-> JsUndefined]
    ELSE IF text = "{}"
        THEN [threw |-> FALSE, kind |-> "object", aud |-> JsUndefined,
              exp |-> JsUndefined]
    ELSE IF text = "null"
        THEN [threw |-> FALSE, kind |-> "null", aud |-> JsUndefined,
              exp |-> JsUndefined]
    ELSE [threw |-> TRUE, kind |-> "none", aud |-> JsUndefined,
          exp |-> JsUndefined]

\* Mutant: a list-valued aud is not searched
AudMatches_StringOnly(aud, expected) == aud.t = "string" /\ aud.s = expected

\* payload.aud === expected || (Array.isArray(payload.aud) && includes)
AudMatches(aud, expected) ==
    \/ aud.t = "string" /\ aud.s = expected
    \/ aud.t = "array" /\ \E i \in DOMAIN aud.items : aud.items[i] = expected

\* A payload that cannot be decoded, and a null payload (a TypeError at
\* payload.aud), end in the catch
validateTokenAudience(token, expectedAudience) ==
    LET parts == Split(token, ".")
    IN  IF Len(parts) = 3
        THEN LET bin == Atob(parts[2])
                 payload == JsonParse(bin.text)
             IN  IF bin.threw \/ payload.threw \/ payload.kind = "null"
                 THEN FALSE
                 ELSE AudMatches(payload.aud, expectedAudience)
        ELSE TRUE

\* new URL(req.url).origin for the request URLs of the model
UrlOrigin(url) ==
    IF url = "http://a/mcp" THEN "http://a" ELSE "http://b"

-----------------------------------------------------------------------------
(* Requests *)

HeaderNames == {"authorization", "bearer", "x-auth-token", "x-authorization"}

\* The header names verifyGoogleToken scans, in order
authHeaders ==
    <<"authorization", "Authorization", "bearer", "Bearer",
      "x-auth-token", "x-authorization">>

\* Headers.get matches names case-insensitively
LowerName(name) ==
    IF name = "Authorization" THEN "authorization"
    ELSE IF name = "Bearer" THEN "bearer"
    ELSE name

\* req.headers.get(name): the value, or Undefined (null) when missing
HeadersGet(req, name) == req.headers[LowerName(name)]

BasicValue == <<"B","a","s","i","c"," ","x">>

HeaderValues(name) ==
    IF name = "authorization"
        THEN { Undefined, BearerCap \o TokJwt, BearerLow \o TokYa,
               BearerUp \o TokJwt, BasicValue, TokYa }
    ELSE IF name = "bearer" THEN { Undefined, BearerCap \o TokPlain }
    ELSE IF name = "x-auth-token"
        THEN { Undefined, BearerCap \o TokTwo, BearerLow \o TokJwtAud, TokJwt }
    ELSE { Undefined, BearerLow \o TokFour }

ReqUrls == {"http://a/mcp"}

Requests ==
    { [url |-> u,
       headers |-> [n \in HeaderNames |->
                       IF n = "authorization" THEN a
                       ELSE IF n = "bearer" THEN b
                       ELSE IF n = "x-auth-token" THEN x
                       ELSE y]] :
        u \in ReqUrls,
        a \in HeaderValues("authorization"),
        b \in HeaderValues("bearer"),
        x \in HeaderValues("x-auth-token"),
        y \in HeaderValues("x-authorization") }

\* The bearerToken argument: omitted, empty, or a credential
BearerArgs == {Undefined, EmptyString} \cup Tokens

\* process.env as read by the module
Environments ==
    [ NODE_ENV : {"development", "production"},
      DEV_AUTH_TOKEN : {Undefined, TokYa, TokJwt},
      SKIP_AUTH : {"undefined", "true"},
      GOOGLE_CLIENT_ID : {"client-id"} ]

\* globalThis.mcpDebugToken
DebugTokens == {Undefined, TokJwtAud}

-----------------------------------------------------------------------------
(* What the identity provider may answer *)

\* googleClient.verifyIdToken: rejects with an Error object (what the library
\* and the network layer raise), or resolves to a ticket whose getPayload()
\* is empty or a payload
IdTokenOutcomes ==
    { [kind |-> "throw", sub |-> "undefined", email |-> "undefined",
       exp |-> "undefined", scope |-> "undefined"],
      [kind |-> "empty", sub |-> "undefined", email |-> "undefined",
       exp |-> "undefined", scope |-> "undefined"] }
    \cup [ kind : {"payload"}, sub : {"sub-1", "sub-2"},
           email : {"a@b.com"}, exp : {"1893456000"},
           scope : {"openid", "admin"} ]

\* fetch(userinfo): rejects, or resolves to a response with a status
FetchOutcomes ==
    { [kind |-> "throw", ok |-> FALSE, status |-> 0],
      [kind |-> "response", ok |-> FALSE, status |-> 401],
      [kind |-> "response", ok |-> TRUE, status |-> 200] }

\* userInfoResponse.json(): rejects (unparsable body), or resolves to null or
\* to a profile object
JsonOutcomes ==
    { [kind |-> "throw", id |-> "undefined", email |-> "undefined",
       scope |-> "undefined"],
      [kind |-> "null", id |-> "undefined", email |-> "undefined",
       scope |-> "undefined"] }
    \cup [ kind : {"object"}, id : {"123", "456"},
           email : {"a@b.com", "undefined"}, scope : {"openid", "admin"} ]

-----------------------------------------------------------------------------
(* Results *)

NoResult == [kind |-> "none"]

\* Before ticket.getPayload() and userInfoResponse.json() have answered
NoPayload ==
    [kind |-> "none", sub |-> "undefined", email |-> "undefined",
     exp |-> "undefined", scope |-> "undefined"]

NoUserInfo ==
    [kind |-> "none", id |-> "undefined", email |-> "undefined",
     scope |-> "undefined"]

UndefinedResult == [kind |-> "undefined"]

DevBypassContext ==
    [ kind |-> "authInfo",
      token |-> <<"d","e","v","-","b","y","p","a","s","s">>,
      scopes |-> <<"read:mcp", "write:mcp", "mcp:read", "mcp:write", "mcp:tools">>,
      clientId |-> "dev-user",
      expiresAt |-> "undefined",
      email |-> "dev@example.com",
      name |-> "Development User",
      tokenType |-> "undefined",
      audience |-> "undefined" ]

IdTokenContext(bearerToken, payload, baseUrl) ==
    [ kind |-> "authInfo",
      token |-> bearerToken,
      scopes |-> <<"read:mcp", "write:mcp", "mcp:read", "mcp:write", "mcp:tools">>,
      clientId |-> payload.sub,
      expiresAt |-> payload.exp,
      email |-> payload.email,
      name |-> "undefined",
      tokenType |-> "id_token",
      audience |-> baseUrl ]

\* Mutant: the scopes are taken from what the provider reports
FallbackContext_ProviderScopes(bearerToken, userInfo, baseUrl) ==
    [ kind |-> "authInfo",
      token |-> bearerToken,
      scopes |-> <<userInfo.scope>>,
      clientId |-> userInfo.id,
      expiresAt |-> "undefined",
      email |-> userInfo.email,
      name |-> "undefined",
      tokenType |-> "access_token_fallback",
      audience |-> baseUrl ]

FallbackContext(bearerToken, userInfo, baseUrl) ==
    [ kind |-> "authInfo",
      token |-> bearerToken,
      scopes |-> <<"read:mcp", "write:mcp", "mcp:read", "mcp:write", "mcp:tools">>,
      clientId |-> userInfo.id,
      expiresAt |-> "undefined",
      email |-> userInfo.email,
      name |-> "undefined",
      tokenType |-> "access_token_fallback",
      audience |-> baseUrl ]

\* Mutant: the subject is taken from the e-mail instead of the id
AccessTokenContext_EmailAsId(bearerToken, userInfo, baseUrl) ==
    [ kind |-> "authInfo",
      token |-> bearerToken,
      scopes |-> <<"read:mcp", "write:mcp", "mcp:read", "mcp:write", "mcp:tools">>,
      clientId |-> userInfo.email,
      expiresAt |-> "undefined",
      email |-> userInfo.email,
      name |-> "undefined",
      tokenType |-> "access_token",
      audience |-> baseUrl ]

AccessTokenContext(bearerToken, userInfo, baseUrl) ==
    [ kind |-> "authInfo",
      token |-> bearerToken,
      scopes |-> <<"read:mcp", "write:mcp", "mcp:read", "mcp:write", "mcp:tools">>,
      clientId |-> userInfo.id,
      expiresAt |-> "undefined",
      email |-> userInfo.email,
      name |-> "undefined",
      tokenType |-> "access_token",
      audience |-> baseUrl ]

-----------------------------------------------------------------------------
(* One call of verifyGoogleToken *)

\* The call record: where the call stands (pc), its inputs, the local
\* bearerToken, the result, and a log of the provider calls it issued and of
\* how each was answered.
IdleCall ==
    [ pc |-> "idle",
      req |-> [url |-> "http://a/mcp", headers |-> [n \in HeaderNames |-> Undefined]],
      arg |-> Undefined,
      bearerToken |-> Undefined,
      baseUrl |-> "undefined",
      audienceOk |-> TRUE,
      shape |-> "none",
      diag |-> "none",
      result |-> NoResult,
      idCalls |-> <<>>,
      fetchCalls |-> <<>>,
      idOutcome |-> "none",
      fetchOutcome |-> "none",
      jsonOutcome |-> "none",
      payload |-> NoPayload,
      userInfo |-> NoUserInfo ]

Return(c, r) == [c EXCEPT !.pc = "returned", !.result = r]

\* An exception is propagating out of the inner statements
Throw(c) == [c EXCEPT !.pc = "thrown"]

\* The loop over authHeaders: the first value that starts with "Bearer " or
\* "bearer ", prefix removed; Undefined when no header has one
RECURSIVE ScanHeaders(_, _)
ScanHeaders(req, hs) ==
    IF hs = <<>> THEN Undefined
    ELSE LET value == HeadersGet(req, Head(hs))
         IN  IF Truthy(value) /\ StartsWith(value, BearerCap)
                 THEN Substring(value, 7)
             ELSE IF Truthy(value) /\ StartsWith(value, BearerLow)
                 THEN Substring(value, 7)
             ELSE ScanHeaders(req, Tail(hs))

\* bearerToken after the header scan
ExtractBearer(req, bearerToken) ==
    IF ~Truthy(bearerToken)
    THEN LET found == ScanHeaders(req, authHeaders)
         IN  IF found = Undefined THEN bearerToken ELSE found
    ELSE bearerToken

\* Mutant: the NODE_ENV test is missing
DevMode_AnyEnv(bearerToken, e) == ~Truthy(bearerToken)

\* The development block is entered
DevMode(bearerToken, e) ==
    ~Truthy(bearerToken) /\ e.NODE_ENV = "development"

\* bearerToken after the development block: DEV_AUTH_TOKEN, else the injected
\* debug token
DevToken(bearerToken, e, dbg) ==
    IF DevMode(bearerToken, e)
    THEN LET t == IF Truthy(e.DEV_AUTH_TOKEN) THEN e.DEV_AUTH_TOKEN
                  ELSE bearerToken
         IN  IF ~Truthy(t) /\ Truthy(dbg) THEN dbg ELSE t
    ELSE bearerToken

\* The development block returns the bypass context
SkipAuth(bearerToken, e) ==
    DevMode(bearerToken, e) /\ e.SKIP_AUTH = "true"

\* Mutant: three or more segments count as a signed token
TokenShape_AtLeastThree(bearerToken) ==
    IF Len(Split(bearerToken, ".")) >= 3 THEN "SignedIdentityToken"
    ELSE IF StartsWith(bearerToken, Ya29) THEN "OpaqueAccessToken"
    ELSE "Unrecognized"

\* The branch taken on the token's shape
TokenShape(bearerToken) ==
    IF Len(Split(bearerToken, ".")) = 3 THEN "SignedIdentityToken"
    ELSE IF StartsWith(bearerToken, Ya29) THEN "OpaqueAccessToken"
    ELSE "Unrecognized"

\* The diagnostic decode of header and payload, in its own try/catch: a
\* decode error is caught, and so is the RangeError that toISOString raises
\* for a payload without exp; the outcome is only logged
DiagnosticDecode(tokenSegments) ==
    LET h == Atob(tokenSegments[1])
        p == Atob(tokenSegments[2])
    IN  IF h.threw \/ JsonParse(h.text).threw THEN "caught"
        ELSE IF p.threw \/ JsonParse(p.text).threw THEN "caught"
        ELSE IF JsonParse(p.text).kind = "null" THEN "caught"
        ELSE IF JsonParse(p.text).exp.t = "undefined" THEN "caught"
        ELSE "logged"

\* googleClient.verifyIdToken({idToken, audience}) is called
CallVerifyIdToken(c, e) ==
    [c EXCEPT !.idCalls = Append(@, [idToken |-> c.bearerToken,
                                     audience |-> e.GOOGLE_CLIENT_ID]),
              !.pc = "awaitVerifyIdToken"]

\* fetch(userinfo, Authorization: Bearer <bearerToken>) is called
CallUserInfo(c, next) ==
    [c EXCEPT !.fetchCalls = Append(@, c.bearerToken), !.pc = next]

\* The try block up to its first await
Dispatch(c, e) ==
    LET shape == TokenShape(c.bearerToken)
        d == [c EXCEPT !.shape = shape]
    IN  IF shape = "SignedIdentityToken"
        THEN CallVerifyIdToken(
                 [d EXCEPT !.diag = DiagnosticDecode(Split(c.bearerToken, "."))], e)
        ELSE IF shape = "OpaqueAccessToken"
        THEN CallUserInfo(d, "awaitDirectFetch")
        ELSE Return(d, UndefinedResult)

\* Mutant: no outer catch
OuterCatch_Rethrows(c) == c

\* The outer catch: any exception raised inside the try returns undefined
OuterCatch(c) ==
    IF c.pc = "thrown" THEN Return(c, UndefinedResult) ELSE c

\* Mutant: a failed audience pre-check rejects the token
Begin_RejectsAudienceMismatch(req, arg, e, dbg) ==
    LET t1 == ExtractBearer(req, arg)
        t2 == DevToken(t1, e, dbg)
        baseUrl == UrlOrigin(req.url)
        c == [IdleCall EXCEPT !.req = req, !.arg = arg, !.bearerToken = t2]
    IN  IF SkipAuth(t1, e) THEN Return(c, DevBypassContext)
        ELSE IF ~Truthy(t2) THEN Return(c, UndefinedResult)
        ELSE IF ~validateTokenAudience(t2, baseUrl)
        THEN Return([c EXCEPT !.baseUrl = baseUrl, !.audienceOk = FALSE],
                    UndefinedResult)
        ELSE OuterCatch(Dispatch(
                 [c EXCEPT !.baseUrl = baseUrl, !.audienceOk = TRUE], e))

\* verifyGoogleToken(req, bearerToken) up to its first await or its return
Begin(req, arg, e, dbg) ==
    LET t1 == ExtractBearer(req, arg)
        t2 == DevToken(t1, e, dbg)
        baseUrl == UrlOrigin(req.url)
        c == [IdleCall EXCEPT !.req = req, !.arg = arg, !.bearerToken = t2]
    IN  IF SkipAuth(t1, e) THEN Return(c, DevBypassContext)
        ELSE IF ~Truthy(t2) THEN Return(c, UndefinedResult)
        ELSE OuterCatch(Dispatch(
                 [c EXCEPT !.baseUrl = baseUrl,
                           !.audienceOk = validateTokenAudience(t2, baseUrl)], e))

\* verifyIdToken settled: a payload gives the context, an empty payload
\* returns undefined, a rejection starts the userinfo fallback
OnVerifyIdToken(c, out) ==
    LET d == [c EXCEPT !.idOutcome = out.kind, !.payload = out]
    IN  IF out.kind = "payload"
        THEN Return(d, IdTokenContext(c.bearerToken, out, c.baseUrl))
        ELSE IF out.kind = "empty" THEN Return(d, UndefinedResult)
        ELSE CallUserInfo(d, "awaitFallbackFetch")

\* Mutant: a fallback lookup that is refused is tried again
OnFallbackResponse_Retries(c, resp) ==
    LET d == [c EXCEPT !.fetchOutcome =
                  IF resp.kind = "throw" THEN "throw"
                  ELSE IF resp.ok THEN "ok" ELSE "notOk"]
    IN  IF resp.kind = "throw" THEN Throw(d)
        ELSE IF ~resp.ok THEN CallUserInfo(d, "awaitFallbackFetch")
        ELSE [d EXCEPT !.pc = "awaitFallbackJson"]

\* The fallback fetch settled: a rejection propagates, a non-ok status throws
OnFallbackResponse(c, resp) ==
    LET d == [c EXCEPT !.fetchOutcome =
                  IF resp.kind = "throw" THEN "throw"
                  ELSE IF resp.ok THEN "ok" ELSE "notOk"]
    IN  IF resp.kind = "throw" THEN Throw(d)
        ELSE IF ~resp.ok THEN Throw(d)
        ELSE [d EXCEPT !.pc = "awaitFallbackJson"]

\* The fallback body was read: a rejection propagates, null raises a
\* TypeError at userInfo.email, an object gives the context
OnFallbackJson(c, body) ==
    LET d == [c EXCEPT !.jsonOutcome = body.kind, !.userInfo = body]
    IN  IF body.kind = "object"
        THEN Return(d, FallbackContext(c.bearerToken, body, c.baseUrl))
        ELSE Throw(d)

\* Mutant: the response status is not looked at
OnDirectResponse_NoStatusCheck(c, resp) ==
    LET d == [c EXCEPT !.fetchOutcome =
                  IF resp.kind = "throw" THEN "throw"
                  ELSE IF resp.ok THEN "ok" ELSE "notOk"]
    IN  IF resp.kind = "throw" THEN Throw(d)
        ELSE [d EXCEPT !.pc = "awaitDirectJson"]

\* The direct fetch settled: a rejection propagates, a non-ok status returns
\* undefined
OnDirectResponse(c, resp) ==
    LET d == [c EXCEPT !.fetchOutcome =
                  IF resp.kind = "throw" THEN "throw"
                  ELSE IF resp.ok THEN "ok" ELSE "notOk"]
    IN  IF resp.kind = "throw" THEN Throw(d)
        ELSE IF ~resp.ok THEN Return(d, UndefinedResult)
        ELSE [d EXCEPT !.pc = "awaitDirectJson"]

\* The direct body was read
OnDirectJson(c, body) ==
    LET d == [c EXCEPT !.jsonOutcome = body.kind, !.userInfo = body]
    IN  IF body.kind = "object"
        THEN Return(d, AccessTokenContext(c.bearerToken, body, c.baseUrl))
        ELSE Throw(d)

-----------------------------------------------------------------------------
(* The state machine *)

\* No validator call is being modelled
NoCall == [fn |-> "none"]

Init ==
    /\ env \in Environments
    /\ mcpDebugToken \in DebugTokens
    /\ call = IdleCall
    /\ callB = IdleCall
    /\ envB = env
    /\ dbgB = mcpDebugToken
    /\ fnIn = NoCall
    /\ fnOut = NoCall

\* A request arrives and verifyGoogleToken runs to its first await
Call ==
    /\ call.pc = "idle"
    /\ \E req \in Requests, arg \in BearerArgs :
           call' = Begin(req, arg, env, mcpDebugToken)
    /\ UNCHANGED <<env, mcpDebugToken, callB, envB, dbgB, fnIn, fnOut>>

VerifyIdTokenSettles ==
    /\ call.pc = "awaitVerifyIdToken"
    /\ \E out \in IdTokenOutcomes : call' = OuterCatch(OnVerifyIdToken(call, out))
    /\ UNCHANGED <<env, mcpDebugToken, callB, envB, dbgB, fnIn, fnOut>>

FallbackFetchSettles ==
    /\ call.pc = "awaitFallbackFetch"
    /\ \E resp \in FetchOutcomes : call' = OuterCatch(OnFallbackResponse(call, resp))
    /\ UNCHANGED <<env, mcpDebugToken, callB, envB, dbgB, fnIn, fnOut>>

FallbackJsonSettles ==
    /\ call.pc = "awaitFallbackJson"
    /\ \E body \in JsonOutcomes : call' = OuterCatch(OnFallbackJson(call, body))
    /\ UNCHANGED <<env, mcpDebugToken, callB, envB, dbgB, fnIn, fnOut>>

DirectFetchSettles ==
    /\ call.pc = "awaitDirectFetch"
    /\ \E resp \in FetchOutcomes : call' = OuterCatch(OnDirectResponse(call, resp))
    /\ UNCHANGED <<env, mcpDebugToken, callB, envB, dbgB, fnIn, fnOut>>

DirectJsonSettles ==
    /\ call.pc = "awaitDirectJson"
    /\ \E body \in JsonOutcomes : call' = OuterCatch(OnDirectJson(call, body))
    /\ UNCHANGED <<env, mcpDebugToken, callB, envB, dbgB, fnIn, fnOut>>

Next ==
    \/ Call
    \/ VerifyIdTokenSettles
    \/ FallbackFetchSettles
    \/ FallbackJsonSettles
    \/ DirectFetchSettles
    \/ DirectJsonSettles

Spec == Init /\ [][Next]_vars

TypeOK ==
    /\ env \in Environments
    /\ mcpDebugToken \in DebugTokens
    /\ call.pc \in {"idle", "awaitVerifyIdToken", "awaitFallbackFetch",
                    "awaitFallbackJson", "awaitDirectFetch", "awaitDirectJson",
                    "returned", "thrown"}

-----------------------------------------------------------------------------
(* Vocabulary of the properties *)

Returned == call.pc = "returned"

Started == call.pc # "idle"

HasContext == Returned /\ call.result.kind = "authInfo"

Absent == Returned /\ call.result = UndefinedResult

\* A provider verification succeeded during the call: verifyIdToken gave a
\* payload, or the userinfo lookup answered with a success status and a profile
ProviderSucceeded ==
    \/ call.idOutcome = "payload"
    \/ call.fetchOutcome = "ok" /\ call.jsonOutcome = "object"

\* The userinfo lookup was made and did not give a profile
LookupFailed ==
    \/ call.fetchOutcome \in {"throw", "notOk"}
    \/ call.fetchOutcome = "ok" /\ call.jsonOutcome \in {"throw", "null"}

NoProviderCall == call.idCalls = <<>> /\ call.fetchCalls = <<>>

\* The request carries a credential: the argument, or a header that yields one
CredentialPresented == Truthy(ExtractBearer(call.req, call.arg))

\* The credential splits on "." into three parts
ThreeParts(token) == Len(Split(token, ".")) = 3

\* The call went through the three-part branch
ThreePartCall == Started /\ call.shape = "SignedIdentityToken"

FixedScopes == <<"read:mcp", "write:mcp", "mcp:read", "mcp:write", "mcp:tools">>

-----------------------------------------------------------------------------
(* C1 *)

\* C1 as stated: a context is returned only if a provider verification
\* succeeded during the call, under every configuration.
C1_Original == HasContext => ProviderSucceeded

\* C1, amended: a context is returned only if a provider verification
\* succeeded during the call, except the development bypass: with
\* NODE_ENV=development, SKIP_AUTH=true and no credential presented, the fixed
\* dev-bypass context is returned without any provider call.
C1_ContextOnlyAfterVerification ==
    HasContext =>
        \/ ProviderSucceeded
        \/ /\ env.NODE_ENV = "development"
           /\ env.SKIP_AUTH = "true"
           /\ ~CredentialPresented
           /\ call.result = DevBypassContext
           /\ NoProviderCall

C1_Witness ==
    /\ HasContext
    /\ env.NODE_ENV = "development"
    /\ env.SKIP_AUTH = "true"
    /\ call.idOutcome = "throw"
    /\ call.fetchOutcome = "ok"
    /\ call.jsonOutcome = "object"

-----------------------------------------------------------------------------
(* C2 *)

\* C2: for a three-part credential, when verifyIdToken throws or
\* gives no payload, the userinfo fallback has been attempted exactly once when
\* the call returns absent.
C2_Original ==
    (ThreePartCall /\ Absent /\ call.idOutcome \in {"throw", "empty"})
        => Len(call.fetchCalls) = 1

-----------------------------------------------------------------------------
(* C3 *)

\* C3: for a three-part credential the call returns absent only if
\* the identity path failed and the fallback lookup, made with the same raw
\* token, failed too.
C3_Original ==
    (ThreePartCall /\ Absent) =>
        /\ call.idOutcome \in {"throw", "empty"}
        /\ call.fetchCalls = <<call.idCalls[1].idToken>>
        /\ LookupFailed

-----------------------------------------------------------------------------
(* C4 *)

\* Three parts, none of them empty
ThreeNonEmptySegments(token) ==
    LET parts == Split(token, ".")
    IN  Len(parts) = 3 /\ \A i \in 1..3 : parts[i] # <<>>

\* The classification the claim describes
ClaimedShape(token) ==
    IF ThreeNonEmptySegments(token) THEN "SignedIdentityToken"
    ELSE IF StartsWith(token, Ya29) THEN "OpaqueAccessToken"
    ELSE "Unrecognized"

\* C4: every non-empty credential that reaches classification is handled as
\* a signed identity token when it has exactly three non-empty segments, as an
\* opaque access token when it starts with "ya29." and has not that shape, and
\* as Unrecognized otherwise.
C4_Classification ==
    (Started /\ call.shape # "none") =>
        call.shape = ClaimedShape(call.bearerToken)

-----------------------------------------------------------------------------
(* C5 *)

LowerChar(ch) ==
    IF ch = "B" THEN "b" ELSE IF ch = "E" THEN "e" ELSE IF ch = "A" THEN "a"
    ELSE IF ch = "R" THEN "r" ELSE ch

\* The credential a header value carries: the value, with a "Bearer " prefix
\* in any letter case removed
CredentialOf(value) ==
    IF Len(value) >= 7 /\ [i \in 1..7 |-> LowerChar(value[i])] = BearerLow
    THEN Substring(value, 7)
    ELSE value

AuthorizationValue == call.req.headers["authorization"]

XAuthTokenValue == call.req.headers["x-auth-token"]

\* C5: with no bearerToken argument and non-empty values in both
\* authorization and x-auth-token, the credential used is the one from
\* authorization, whatever the two values are.
C5_Original ==
    (Started /\ ~Truthy(call.arg) /\ Truthy(AuthorizationValue)
        /\ Truthy(XAuthTokenValue))
        => call.bearerToken = CredentialOf(AuthorizationValue)

-----------------------------------------------------------------------------
(* C6 *)

\* C6: no exception escapes verifyGoogleToken: whatever the provider does,
\* the call never ends with an exception propagating, and when it completes
\* its result is a context or absent.
C6_NoExceptionEscapes ==
    /\ call.pc # "thrown"
    /\ Returned => call.result.kind \in {"authInfo", "undefined"}

C6_Witness ==
    /\ Absent
    /\ call.idOutcome = "throw"
    /\ call.fetchOutcome = "throw"
    /\ ~call.audienceOk

-----------------------------------------------------------------------------
(* C7 *)

\* C7 as stated: a request without credential returns absent and issues no
\* provider call, under every configuration.
C7_Original ==
    (Started /\ ~CredentialPresented) => Absent /\ NoProviderCall

\* No development override applies
NoOverride ==
    \/ env.NODE_ENV # "development"
    \/ /\ ~Truthy(env.DEV_AUTH_TOKEN)
       /\ ~Truthy(mcpDebugToken)
       /\ env.SKIP_AUTH # "true"

\* C7, amended: a request without credential returns absent and issues no
\* provider call whenever no development override applies (NODE_ENV is not
\* development, or none of DEV_AUTH_TOKEN, the injected debug token and
\* SKIP_AUTH=true is set); in development with SKIP_AUTH=true it returns the
\* dev-bypass context, still without any provider call; in development with a
\* development token and no SKIP_AUTH, DEV_AUTH_TOKEN (else the debug token)
\* is classified and verified in place of the missing credential.
C7_NoCredentialNoCall ==
    (Started /\ ~CredentialPresented) =>
        /\ NoOverride => Absent /\ NoProviderCall
        /\ (env.NODE_ENV = "development" /\ env.SKIP_AUTH = "true") =>
               Returned /\ call.result = DevBypassContext /\ NoProviderCall
        /\ (env.NODE_ENV = "development" /\ env.SKIP_AUTH # "true"
               /\ (Truthy(env.DEV_AUTH_TOKEN) \/ Truthy(mcpDebugToken))) =>
               /\ call.shape # "none"
               /\ call.bearerToken =
                      IF Truthy(env.DEV_AUTH_TOKEN) THEN env.DEV_AUTH_TOKEN
                      ELSE mcpDebugToken

C7_Witness ==
    /\ Started
    /\ ~CredentialPresented
    /\ env.NODE_ENV = "production"
    /\ Truthy(env.DEV_AUTH_TOKEN)
    /\ Truthy(mcpDebugToken)
    /\ env.SKIP_AUTH = "true"
    /\ AuthorizationValue = BasicValue
    /\ Absent
    /\ NoProviderCall

-----------------------------------------------------------------------------
(* C8 *)

\* C8: a credential that reaches classification, has not three dot-separated
\* parts and does not start with "ya29." returns absent without any call to
\* the identity provider.
C8_UnrecognizedNoCall ==
    (Started /\ call.shape # "none" /\ ~ThreeParts(call.bearerToken)
        /\ ~StartsWith(call.bearerToken, Ya29))
        => Absent /\ NoProviderCall

C8_Witness ==
    /\ call.shape = "Unrecognized"
    /\ call.bearerToken = TokFour
    /\ Absent
    /\ NoProviderCall

-----------------------------------------------------------------------------
(* C9 *)

\* C9: for an opaque access token ("ya29." prefix, not three parts) one
\* profile lookup is made with the credential; a non-success status gives
\* absent; a success with a profile gives a context whose clientId is the
\* profile's id, whose email is the profile's email, whose token is the
\* credential and whose expiresAt is absent.
C9_OpaqueAccessToken ==
    (Started /\ call.shape # "none" /\ StartsWith(call.bearerToken, Ya29)
        /\ ~ThreeParts(call.bearerToken))
        => /\ call.idCalls = <<>>
           /\ call.fetchCalls = <<call.bearerToken>>
           /\ call.fetchOutcome = "notOk" => Absent
           /\ (call.fetchOutcome = "ok" /\ call.jsonOutcome = "object") =>
                  /\ HasContext
                  /\ call.result.clientId = call.userInfo.id
                  /\ call.result.email = call.userInfo.email
                  /\ call.result.token = call.bearerToken
                  /\ call.result.expiresAt = "undefined"

C9_Witness ==
    /\ call.bearerToken = TokYa
    /\ call.arg = TokYa
    /\ HasContext
    /\ call.result.clientId = "123"
    /\ call.result.email = "a@b.com"
    /\ call.result.token = TokYa
    /\ call.result.expiresAt = "undefined"

-----------------------------------------------------------------------------
(* C10 *)

\* C10: every context returned, whichever path produced it, carries the
\* fixed ordered scope list, whatever the provider reports.
C10_FixedScopes == HasContext => call.result.scopes = FixedScopes

C10_Witness ==
    /\ HasContext
    /\ call.result.tokenType = "access_token_fallback"
    /\ call.userInfo.scope = "admin"
    /\ call.result.scopes = FixedScopes

-----------------------------------------------------------------------------
(* C11 *)

\* The number of outbound calls to the identity provider made so far
ProviderCalls(c) == Len(c.idCalls) + Len(c.fetchCalls)

\* C11: a call that reaches a verification strategy makes at least one and at
\* most two calls to the identity provider, at most one of each kind; a
\* failed userinfo lookup ends the call, and a failed identity verification
\* is followed only by the one fallback lookup.
C11_OneOrTwoCallsNoRetry ==
    (Started /\ call.shape \in {"SignedIdentityToken", "OpaqueAccessToken"}) =>
        /\ ProviderCalls(call) \in {1, 2}
        /\ Len(call.idCalls) <= 1
        /\ Len(call.fetchCalls) <= 1
        /\ call.shape = "OpaqueAccessToken" => call.idCalls = <<>>
        /\ call.fetchOutcome \in {"throw", "notOk"} => Absent
        /\ call.idOutcome = "throw" =>
               Len(call.idCalls) = 1 /\ Len(call.fetchCalls) = 1

C11_Witness ==
    /\ Absent
    /\ call.shape = "SignedIdentityToken"
    /\ call.idOutcome = "throw"
    /\ call.fetchOutcome = "notOk"
    /\ ProviderCalls(call) = 2

-----------------------------------------------------------------------------
(* Two calls run side by side on the same provider answers: call under        *)
(* (env, mcpDebugToken), callB under (envB, dbgB).  Either the two             *)
(* configurations are the same and the two credentials are three-part tokens   *)
(* that differ in what the pre-checks make of them, or the request is the      *)
(* same and the configurations differ in the development settings only.        *)

SameConfig == envB = env /\ dbgB = mcpDebugToken

\* A configuration outside development mode with no development setting
BaselineConfig ==
    /\ env.NODE_ENV = "production"
    /\ env.DEV_AUTH_TOKEN = Undefined
    /\ env.SKIP_AUTH = "undefined"
    /\ mcpDebugToken = Undefined

ThreePartTokens == { t \in Tokens : Len(Split(t, ".")) = 3 }

\* The tokens whose audience pre-check passes
ReferenceTokens == { TokJwtAud, TokJwtExp }

\* The second call's bearerToken argument
PairArgs(arg) ==
    IF SameConfig
    THEN IF arg \in ReferenceTokens THEN ThreePartTokens ELSE {}
    ELSE {arg}

PairInit ==
    /\ env \in Environments
    /\ mcpDebugToken \in DebugTokens
    /\ envB \in Environments
    /\ dbgB \in DebugTokens
    /\ \/ SameConfig
       \/ BaselineConfig /\ envB.NODE_ENV = env.NODE_ENV
    /\ call = IdleCall
    /\ callB = IdleCall
    /\ fnIn = NoCall
    /\ fnOut = NoCall

PairFrame == UNCHANGED <<env, mcpDebugToken, envB, dbgB, fnIn, fnOut>>

PairCall ==
    /\ call.pc = "idle"
    /\ callB.pc = "idle"
    /\ \E req \in Requests, arg \in BearerArgs :
           \E argB \in PairArgs(arg) :
               /\ call' = Begin(req, arg, env, mcpDebugToken)
               /\ callB' = Begin(req, argB, envB, dbgB)
    /\ PairFrame

PairVerifyIdTokenSettles ==
    /\ call.pc = "awaitVerifyIdToken"
    /\ callB.pc = "awaitVerifyIdToken"
    /\ \E out \in IdTokenOutcomes :
           /\ call' = OuterCatch(OnVerifyIdToken(call, out))
           /\ callB' = OuterCatch(OnVerifyIdToken(callB, out))
    /\ PairFrame

PairFallbackFetchSettles ==
    /\ call.pc = "awaitFallbackFetch"
    /\ callB.pc = "awaitFallbackFetch"
    /\ \E resp \in FetchOutcomes :
           /\ call' = OuterCatch(OnFallbackResponse(call, resp))
           /\ callB' = OuterCatch(OnFallbackResponse(callB, resp))
    /\ PairFrame

PairFallbackJsonSettles ==
    /\ call.pc = "awaitFallbackJson"
    /\ callB.pc = "awaitFallbackJson"
    /\ \E body \in JsonOutcomes :
           /\ call' = OuterCatch(OnFallbackJson(call, body))
           /\ callB' = OuterCatch(OnFallbackJson(callB, body))
    /\ PairFrame

PairDirectFetchSettles ==
    /\ call.pc = "awaitDirectFetch"
    /\ callB.pc = "awaitDirectFetch"
    /\ \E resp \in FetchOutcomes :
           /\ call' = OuterCatch(OnDirectResponse(call, resp))
           /\ callB' = OuterCatch(OnDirectResponse(callB, resp))
    /\ PairFrame

PairDirectJsonSettles ==
    /\ call.pc = "awaitDirectJson"
    /\ callB.pc = "awaitDirectJson"
    /\ \E body \in JsonOutcomes :
           /\ call' = OuterCatch(OnDirectJson(call, body))
           /\ callB' = OuterCatch(OnDirectJson(callB, body))
    /\ PairFrame

PairNext ==
    \/ PairCall
    \/ PairVerifyIdTokenSettles
    \/ PairFallbackFetchSettles
    \/ PairFallbackJsonSettles
    \/ PairDirectFetchSettles
    \/ PairDirectJsonSettles

PairSpec == PairInit /\ [][PairNext]_vars

-----------------------------------------------------------------------------
(* C12 *)

\* A result with the credential it echoes left out
SansToken(r) ==
    IF r.kind = "authInfo" THEN [r EXCEPT !.token = EmptyString] ELSE r

\* C12: two calls under one configuration and one request whose three-part
\* credentials fare differently in the audience pre-check and the diagnostic
\* decode (pass, mismatch, undecodable), given the same provider answers,
\* stand at the same point, have made the same number of provider calls, each
\* with its own credential, and return the same result apart from the
\* credential echoed in it; both reach verifyIdToken.
C12_PreChecksDoNotDecide ==
    (SameConfig /\ Started) =>
        /\ callB.pc = call.pc
        /\ callB.shape = call.shape
        /\ Len(call.idCalls) = 1
        /\ Len(callB.idCalls) = 1
        /\ callB.idCalls[1].idToken = callB.arg
        /\ Len(callB.fetchCalls) = Len(call.fetchCalls)
        /\ \A i \in DOMAIN callB.fetchCalls : callB.fetchCalls[i] = callB.arg
        /\ SansToken(callB.result) = SansToken(call.result)
        /\ callB.result.kind = "authInfo" => callB.result.token = callB.arg

C12_Witness ==
    /\ SameConfig
    /\ call.audienceOk
    /\ call.diag = "logged"
    /\ ~callB.audienceOk
    /\ callB.diag = "caught"
    /\ callB.arg = TokJwtOther
    /\ call.result.kind = "authInfo"
    /\ callB.result.kind = "authInfo"

-----------------------------------------------------------------------------
(* C18 *)

\* C18: outside development mode, a call under any values of DEV_AUTH_TOKEN,
\* SKIP_AUTH and the injected debug token stands where the call for the same
\* request under none of them stands, has made the same provider calls and
\* returns the same result; the dev-bypass context is never returned outside
\* development mode.
C18_OverridesConfinedToDevelopment ==
    /\ (Started /\ callB.req = call.req /\ callB.arg = call.arg
           /\ env.NODE_ENV # "development" /\ envB.NODE_ENV # "development") =>
           /\ callB.pc = call.pc
           /\ callB.bearerToken = call.bearerToken
           /\ callB.idCalls = call.idCalls
           /\ callB.fetchCalls = call.fetchCalls
           /\ callB.result = call.result
    /\ env.NODE_ENV # "development" => call.result # DevBypassContext
    /\ envB.NODE_ENV # "development" => callB.result # DevBypassContext

C18_Witness ==
    /\ BaselineConfig
    /\ envB.NODE_ENV = "production"
    /\ envB.SKIP_AUTH = "true"
    /\ Truthy(envB.DEV_AUTH_TOKEN)
    /\ Truthy(dbgB)
    /\ callB.pc = "returned"
    /\ ~Truthy(ExtractBearer(callB.req, callB.arg))
    /\ callB.result = UndefinedResult
    /\ call.result = UndefinedResult
    /\ callB.idCalls = <<>>
    /\ callB.fetchCalls = <<>>

-----------------------------------------------------------------------------
(* Two calls in flight at once in one process: call and callB share env and   *)
(* mcpDebugToken, and the steps of the two interleave in any order at the      *)
(* awaits.  Each call has its own request and its own provider answers.        *)

NoHeaders == [n \in HeaderNames |-> Undefined]

\* The requests of the interleaved calls: a signed token and an access token
\* as argument, a token in the authorization header, an unrecognized token,
\* and no credential at all
ConcInputs ==
    { [req |-> [url |-> "http://a/mcp", headers |-> NoHeaders], arg |-> TokJwtAud],
      [req |-> [url |-> "http://a/mcp", headers |-> NoHeaders], arg |-> TokYa],
      [req |-> [url |-> "http://a/mcp",
                headers |-> [NoHeaders EXCEPT !["authorization"] = BearerCap \o TokJwt]],
       arg |-> Undefined],
      [req |-> [url |-> "http://a/mcp", headers |-> NoHeaders], arg |-> TokPlain],
      [req |-> [url |-> "http://a/mcp", headers |-> NoHeaders], arg |-> Undefined] }

ConcInit ==
    /\ env \in Environments
    /\ mcpDebugToken \in DebugTokens
    /\ envB = env
    /\ dbgB = mcpDebugToken
    /\ call = IdleCall
    /\ callB = IdleCall
    /\ fnIn = NoCall
    /\ fnOut = NoCall

FrameA == UNCHANGED <<env, mcpDebugToken, callB, envB, dbgB, fnIn, fnOut>>

FrameB == UNCHANGED <<env, mcpDebugToken, call, envB, dbgB, fnIn, fnOut>>

\* Mutant: the call leaves its token in globalThis.mcpDebugToken
ConcCallA_WritesDebugToken ==
    /\ call.pc = "idle"
    /\ \E in \in ConcInputs :
           /\ call' = Begin(in.req, in.arg, env, mcpDebugToken)
           /\ mcpDebugToken' = call'.bearerToken
    /\ UNCHANGED <<env, callB, envB, dbgB, fnIn, fnOut>>

ConcCallA ==
    /\ call.pc = "idle"
    /\ \E in \in ConcInputs : call' = Begin(in.req, in.arg, env, mcpDebugToken)
    /\ FrameA

ConcCallB ==
    /\ callB.pc = "idle"
    /\ \E in \in ConcInputs : callB' = Begin(in.req, in.arg, env, mcpDebugToken)
    /\ FrameB

VerifyIdTokenSettlesB ==
    /\ callB.pc = "awaitVerifyIdToken"
    /\ \E out \in IdTokenOutcomes : callB' = OuterCatch(OnVerifyIdToken(callB, out))
    /\ FrameB

FallbackFetchSettlesB ==
    /\ callB.pc = "awaitFallbackFetch"
    /\ \E resp \in FetchOutcomes : callB' = OuterCatch(OnFallbackResponse(callB, resp))
    /\ FrameB

FallbackJsonSettlesB ==
    /\ callB.pc = "awaitFallbackJson"
    /\ \E body \in JsonOutcomes : callB' = OuterCatch(OnFallbackJson(callB, body))
    /\ FrameB

DirectFetchSettlesB ==
    /\ callB.pc = "awaitDirectFetch"
    /\ \E resp \in FetchOutcomes : callB' = OuterCatch(OnDirectResponse(callB, resp))
    /\ FrameB

DirectJsonSettlesB ==
    /\ callB.pc = "awaitDirectJson"
    /\ \E body \in JsonOutcomes : callB' = OuterCatch(OnDirectJson(callB, body))
    /\ FrameB

ConcNext ==
    \/ ConcCallA
    \/ VerifyIdTokenSettles
    \/ FallbackFetchSettles
    \/ FallbackJsonSettles
    \/ DirectFetchSettles
    \/ DirectJsonSettles
    \/ ConcCallB
    \/ VerifyIdTokenSettlesB
    \/ FallbackFetchSettlesB
    \/ FallbackJsonSettlesB
    \/ DirectFetchSettlesB
    \/ DirectJsonSettlesB

ConcSpec == ConcInit /\ [][ConcNext]_vars

-----------------------------------------------------------------------------
(* C13 *)

\* The provider's answer to a fetch, from the outcome the call noted
ResponseOf(outcome) ==
    IF outcome = "throw" THEN [kind |-> "throw", ok |-> FALSE, status |-> 0]
    ELSE IF outcome = "ok" THEN [kind |-> "response", ok |-> TRUE, status |-> 200]
    ELSE [kind |-> "response", ok |-> FALSE, status |-> 401]

\* Where the call c would stand had it run alone, under the configuration
\* (e, dbg), on its own request and on the provider answers it has received
Alone(c, e, dbg) ==
    IF c.pc = "idle" THEN IdleCall
    ELSE
    LET s0 == Begin(c.req, c.arg, e, dbg)
        s1 == IF s0.pc = "awaitVerifyIdToken" /\ c.idOutcome # "none"
              THEN OuterCatch(OnVerifyIdToken(s0, c.payload)) ELSE s0
        s2 == IF c.fetchOutcome = "none" THEN s1
              ELSE IF s1.pc = "awaitFallbackFetch"
              THEN OuterCatch(OnFallbackResponse(s1, ResponseOf(c.fetchOutcome)))
              ELSE IF s1.pc = "awaitDirectFetch"
              THEN OuterCatch(OnDirectResponse(s1, ResponseOf(c.fetchOutcome)))
              ELSE s1
        s3 == IF c.jsonOutcome = "none" THEN s2
              ELSE IF s2.pc = "awaitFallbackJson"
              THEN OuterCatch(OnFallbackJson(s2, c.userInfo))
              ELSE IF s2.pc = "awaitDirectJson"
              THEN OuterCatch(OnDirectJson(s2, c.userInfo))
              ELSE s2
    IN  s3

\* Each of the two calls stands where it would stand run alone under the
\* configuration of the start, and two calls for the same request that got
\* the same provider answers have the same result
C13_EachAsAlone ==
    /\ call = Alone(call, envB, dbgB)
    /\ callB = Alone(callB, envB, dbgB)
    /\ (call.pc = "returned" /\ callB.pc = "returned"
           /\ callB.req = call.req /\ callB.arg = call.arg
           /\ callB.payload = call.payload
           /\ callB.fetchOutcome = call.fetchOutcome
           /\ callB.userInfo = call.userInfo) =>
           callB.result = call.result

\* The configuration is as it was when the process started: no call has
\* written the state the calls read
C13_ConfigurationUntouched == env = envB /\ mcpDebugToken = dbgB

\* C13: calls interleaved in any order each return what they would return
\* run alone, no call writes state another call reads, and the same request
\* verified twice with the same provider answers gives equal contexts.
C13_NoInterference == C13_ConfigurationUntouched /\ C13_EachAsAlone

C13_Witness ==
    /\ call.pc = "returned"
    /\ call.result.kind = "authInfo"
    /\ call.result.tokenType = "access_token_fallback"
    /\ callB.pc = "awaitDirectJson"
    /\ env.NODE_ENV = "development"
    /\ call.arg = Undefined
    /\ ~Truthy(ExtractBearer(call.req, call.arg))
    /\ call.bearerToken = mcpDebugToken

-----------------------------------------------------------------------------
(* C16 *)

\* The header order the claim names
ClaimedOrder == <<"authorization", "bearer", "x-auth-token", "x-authorization">>

\* The first non-empty value among the headers in that order, Undefined when
\* every one is missing or empty
RECURSIVE FirstNonEmptyValue(_, _)
FirstNonEmptyValue(req, hs) ==
    IF hs = <<>> THEN Undefined
    ELSE IF Truthy(req.headers[Head(hs)]) THEN req.headers[Head(hs)]
    ELSE FirstNonEmptyValue(req, Tail(hs))

\* C16: with no bearerToken argument the credential is the first non-empty
\* value among authorization, bearer, x-auth-token, x-authorization, with a
\* "Bearer " prefix in any letter case removed; with no such value there is
\* no credential.
C16_Extraction ==
    (Started /\ ~Truthy(call.arg) /\ env.NODE_ENV = "production") =>
        LET value == FirstNonEmptyValue(call.req, ClaimedOrder)
        IN  IF value = Undefined THEN ~Truthy(call.bearerToken)
            ELSE call.bearerToken = CredentialOf(value)

\* The prefix in capitals is the only header value and no credential was
\* taken from it
C16_UpperCasePrefixIgnored ==
    /\ Returned
    /\ call.arg = Undefined
    /\ env.NODE_ENV = "production"
    /\ AuthorizationValue = BearerUp \o TokJwt
    /\ \A n \in HeaderNames \ {"authorization"} : call.req.headers[n] = Undefined
    /\ call.bearerToken = Undefined
    /\ call.result = UndefinedResult
    /\ NoProviderCall

-----------------------------------------------------------------------------
(* new URL(x) and its origin property, for input in printable ASCII, tab,
   LF and CR.  The result is left undefined (Unmodelled) for a domain with a
   punycode label or a percent escape of a byte above 0x7F, and for a blob
   URL whose path has a space before its query or fragment. *)

\* No value: the operator that reaches it is not defined on its input
Unmodelled == CHOOSE u \in {} : TRUE


UpperLetters ==
    <<"A","B","C","D","E","F","G","H","I","J","K","L","M",
      "N","O","P","Q","R","S","T","U","V","W","X","Y","Z">>

LowerLetters ==
    <<"a","b","c","d","e","f","g","h","i","j","k","l","m",
      "n","o","p","q","r","s","t","u","v","w","x","y","z">>

Digits == <<"0","1","2","3","4","5","6","7","8","9">>

InSeq(ch, seq) == \E i \in DOMAIN seq : seq[i] = ch

IsAlpha(ch) == InSeq(ch, UpperLetters) \/ InSeq(ch, LowerLetters)

IsDigit(ch) == InSeq(ch, Digits)

AsciiLower(ch) ==
    IF InSeq(ch, UpperLetters)
    THEN LowerLetters[CHOOSE i \in DOMAIN UpperLetters : UpperLetters[i] = ch]
    ELSE ch

LowerCase(s) == [i \in DOMAIN s |-> AsciiLower(s[i])]

\* The first position at or after from whose character is in set, Len(s) + 1
\* when there is none
FirstIn(s, set, from) ==
    LET hits == { i \in from..Len(s) : s[i] \in set }
    IN  IF hits = {} THEN Len(s) + 1
        ELSE CHOOSE i \in hits : \A j \in hits : i <= j

RECURSIVE DecimalValue(_)
DecimalValue(ds) ==
    IF ds = <<>> THEN 0
    ELSE 10 * DecimalValue(SubSeq(ds, 1, Len(ds) - 1))
            + (CHOOSE d \in 0..9 : Digits[d + 1] = ds[Len(ds)])

RECURSIVE DecimalText(_)
DecimalText(n) ==
    IF n < 10 THEN <<Digits[n + 1]>>
    ELSE DecimalText(n \div 10) \o <<Digits[(n % 10) + 1]>>

\* The characters 0x20 to 0x7E in code order; the grave accent, which a
\* string of this notation cannot hold, by its name
PrintableAscii ==
    <<" ","!","\"","#","$","%","&","'","(",")","*","+",
      ",","-",".","/","0","1","2","3","4","5","6","7",
      "8","9",":",";","<","=",">","?","@","A","B","C",
      "D","E","F","G","H","I","J","K","L","M","N","O",
      "P","Q","R","S","T","U","V","W","X","Y","Z","[",
      "\\","]","^","_","<grave>","a","b","c","d","e","f","g",
      "h","i","j","k","l","m","n","o","p","q","r","s",
      "t","u","v","w","x","y","z","{","|","}","~">>

HexDigits ==
    <<"0","1","2","3","4","5","6","7","8","9","a","b","c","d","e","f">>

IsHex(ch) == InSeq(AsciiLower(ch), HexDigits)

HexValue(ch) ==
    (CHOOSE i \in DOMAIN HexDigits : HexDigits[i] = AsciiLower(ch)) - 1

\* A decoded control character
NonPrintable == "<non-printable>"

\* A decoded byte above 0x7F
NonAscii == "<non-ascii>"

ByteChar(v) ==
    IF v >= 32 /\ v <= 126 THEN PrintableAscii[v - 31]
    ELSE IF v >= 128 THEN NonAscii
    ELSE NonPrintable

\* Percent-decoding of a host: %XY is the byte XY, anything else is kept
RECURSIVE PercentDecode(_)
PercentDecode(s) ==
    IF s = <<>> THEN <<>>
    ELSE IF s[1] = "%" /\ Len(s) >= 3 /\ IsHex(s[2]) /\ IsHex(s[3])
        THEN <<ByteChar(16 * HexValue(s[2]) + HexValue(s[3]))>>
                \o PercentDecode(SubSeq(s, 4, Len(s)))
    ELSE <<s[1]>> \o PercentDecode(Tail(s))

SetMin(S) == CHOOSE i \in S : \A j \in S : i <= j

SetMax(S) == CHOOSE i \in S : \A j \in S : i >= j

\* Tab, LF and CR are removed and leading and trailing spaces are stripped
StripInput(raw) ==
    LET s == SelectSeq(raw, LAMBDA ch : ch \notin {"\t", "\n", "\r"})
        keep == { i \in DOMAIN s : s[i] # " " }
    IN  IF keep = {} THEN <<>> ELSE SubSeq(s, SetMin(keep), SetMax(keep))

\* Decimal digits without their leading zeros
StripZeros(ds) ==
    LET nonzero == { i \in DOMAIN ds : ds[i] # "0" }
    IN  IF ds = <<>> THEN <<>>
        ELSE IF nonzero = {} THEN <<"0">>
        ELSE SubSeq(ds, SetMin(nonzero), Len(ds))

SchemeHttp == <<"h","t","t","p">>

SchemeHttps == <<"h","t","t","p","s">>

SchemeWs == <<"w","s">>

SchemeWss == <<"w","s","s">>

SchemeFtp == <<"f","t","p">>

SchemeFile == <<"f","i","l","e">>

SchemeBlob == <<"b","l","o","b">>

\* The schemes whose URLs have a tuple origin
TupleOriginSchemes == {SchemeHttp, SchemeHttps, SchemeWs, SchemeWss, SchemeFtp}

\* The port left out of a serialized URL, as decimal text with no leading
\* zero; <<>> is the null port
NoPort == <<>>

\* The default port of a scheme with a tuple origin
DefaultPort(scheme) ==
    IF scheme \in {SchemeHttp, SchemeWs} THEN 80
    ELSE IF scheme \in {SchemeHttps, SchemeWss} THEN 443
    ELSE 21

\* The forbidden host code points, for the opaque host of a non-special URL
ForbiddenHostChars ==
    {" ", "#", "/", ":", "<", ">", "?", "@", "[", "\\", "]", "^", "|"}

\* The forbidden domain code points, for the host of a special URL
ForbiddenDomainChars == ForbiddenHostChars \cup {"%", NonPrintable}

\* The serialization of an opaque origin
NullOrigin == <<"n","u","l","l">>

\* new URL(input) threw a TypeError
UrlFailure ==
    [threw |-> TRUE, scheme |-> <<>>, host |-> <<>>, port |-> NoPort,
     origin |-> Undefined]

HostFailure == [failed |-> TRUE, host |-> <<>>]

\* The number a run of hexadecimal digits spells
RECURSIVE HexNumber(_)
HexNumber(ds) ==
    IF ds = <<>> THEN 0
    ELSE 16 * HexNumber(SubSeq(ds, 1, Len(ds) - 1)) + HexValue(ds[Len(ds)])

\* A number in lower-case hexadecimal digits
RECURSIVE HexText(_)
HexText(n) ==
    IF n < 16 THEN <<HexDigits[n + 1]>>
    ELSE HexText(n \div 16) \o <<HexDigits[(n % 16) + 1]>>

\* The IPv4 number parser: 0x starts a hexadecimal and 0 an octal number
Radix(part) ==
    IF Len(part) >= 2 /\ part[1] = "0" /\ part[2] \in {"x", "X"} THEN 16
    ELSE IF Len(part) >= 2 /\ part[1] = "0" THEN 8
    ELSE 10

RadixDigits(part) ==
    IF Radix(part) = 16 THEN Substring(part, 2)
    ELSE IF Radix(part) = 8 THEN Substring(part, 1)
    ELSE part

Ipv4NumberOk(part) ==
    /\ part # <<>>
    /\ \A i \in DOMAIN RadixDigits(part) :
           /\ IsHex(RadixDigits(part)[i])
           /\ HexValue(RadixDigits(part)[i]) < Radix(part)

\* The value of the digits as two 16-bit halves, over when it passes 32 bits
RECURSIVE Accumulate(_, _, _)
Accumulate(ds, radix, n) ==
    IF ds = <<>> THEN n
    ELSE Accumulate(Tail(ds), radix,
             [hi |-> (n.hi * radix
                        + (n.lo * radix + HexValue(Head(ds))) \div 65536)
                        % 65536,
              lo |-> (n.lo * radix + HexValue(Head(ds))) % 65536,
              over |-> \/ n.over
                       \/ n.hi * radix
                            + (n.lo * radix + HexValue(Head(ds))) \div 65536
                            >= 65536])

Ipv4Number(part) ==
    Accumulate(RadixDigits(part), Radix(part),
               [hi |-> 0, lo |-> 0, over |-> FALSE])

\* The parts of a domain between its dots, one trailing empty part dropped
Ipv4Parts(domain) ==
    IF /\ Len(Split(domain, ".")) > 1
       /\ Split(domain, ".")[Len(Split(domain, "."))] = <<>>
    THEN SubSeq(Split(domain, "."), 1, Len(Split(domain, ".")) - 1)
    ELSE Split(domain, ".")

\* The ends-in-a-number checker, on the last part
LooksLikeNumber(last) ==
    \/ last # <<>> /\ \A i \in DOMAIN last : IsDigit(last[i])
    \/ Ipv4NumberOk(last)

EndsInNumber(parts) == LooksLikeNumber(parts[Len(parts)])

\* Every number but the last is at most 255 and the last fills the octets
\* that remain
Ipv4Fits(numbers) ==
    /\ \A i \in DOMAIN numbers : ~numbers[i].over
    /\ \A i \in 1..(Len(numbers) - 1) :
           numbers[i].hi = 0 /\ numbers[i].lo < 256
    /\ Len(numbers) = 2 => numbers[2].hi < 256
    /\ Len(numbers) = 3 => numbers[3].hi = 0
    /\ Len(numbers) = 4 => numbers[4].hi = 0 /\ numbers[4].lo < 256

Octets(n) == <<n.hi \div 256, n.hi % 256, n.lo \div 256, n.lo % 256>>

Ipv4Text(numbers) ==
    LET octet == [i \in 1..4 |->
                     IF i < Len(numbers) THEN numbers[i].lo
                     ELSE Octets(numbers[Len(numbers)])[i]]
    IN  DecimalText(octet[1]) \o <<".">> \o DecimalText(octet[2]) \o <<".">>
            \o DecimalText(octet[3]) \o <<".">> \o DecimalText(octet[4])

Ipv4Address(numbers) ==
    IF Ipv4Fits(numbers)
    THEN [failed |-> FALSE, host |-> Ipv4Text(numbers)]
    ELSE HostFailure

\* The IPv4 parser
Ipv4Host(parts) ==
    IF Len(parts) > 4 THEN HostFailure
    ELSE IF \E i \in DOMAIN parts : ~Ipv4NumberOk(parts[i]) THEN HostFailure
    ELSE Ipv4Address([i \in DOMAIN parts |-> Ipv4Number(parts[i])])

\* A decimal part of the IPv4 address that ends an IPv6 address
Ipv4PieceOk(t) ==
    /\ t # <<>>
    /\ Len(t) <= 3
    /\ \A i \in DOMAIN t : IsDigit(t[i])
    /\ Len(t) = 1 \/ t[1] # "0"
    /\ DecimalValue(t) <= 255

EmbeddedOk(parts) ==
    Len(parts) = 4 /\ \A i \in DOMAIN parts : Ipv4PieceOk(parts[i])

EmbeddedPieces(parts) ==
    <<256 * DecimalValue(parts[1]) + DecimalValue(parts[2]),
      256 * DecimalValue(parts[3]) + DecimalValue(parts[4])>>

\* The number of hexadecimal digits at position p, four at most
HexRun(s, p) ==
    SetMax({ k \in 0..4 :
                /\ p + k - 1 <= Len(s)
                /\ \A i \in p..(p + k - 1) : IsHex(s[i]) })

Ipv6Failure == [failed |-> TRUE, pieces |-> <<>>, compress |-> 0]

\* The IPv6 parser from position p: the pieces read so far, and in compress
\* the number of pieces before the "::", 0 when there was none
RECURSIVE Ipv6Loop(_, _, _, _)
RECURSIVE Ipv6Piece(_, _, _, _, _)
Ipv6Piece(s, p, q, pieces, compress) ==
    IF q > Len(s)
    THEN [failed |-> FALSE,
          pieces |-> Append(pieces, HexNumber(SubSeq(s, p, q - 1))),
          compress |-> compress]
    ELSE IF s[q] = "."
    THEN IF q = p \/ Len(pieces) > 6 THEN Ipv6Failure
         ELSE IF ~EmbeddedOk(Split(Substring(s, p - 1), ".")) THEN Ipv6Failure
         ELSE [failed |-> FALSE,
               pieces |-> pieces
                   \o EmbeddedPieces(Split(Substring(s, p - 1), ".")),
               compress |-> compress]
    ELSE IF s[q] = ":" /\ q < Len(s)
    THEN Ipv6Loop(s, q + 1,
                  Append(pieces, HexNumber(SubSeq(s, p, q - 1))), compress)
    ELSE Ipv6Failure

Ipv6Loop(s, p, pieces, compress) ==
    IF p > Len(s)
    THEN [failed |-> FALSE, pieces |-> pieces, compress |-> compress]
    ELSE IF Len(pieces) = 8 THEN Ipv6Failure
    ELSE IF s[p] = ":"
    THEN IF compress # 0 THEN Ipv6Failure
         ELSE Ipv6Loop(s, p + 1, Append(pieces, 0), Len(pieces) + 1)
    ELSE Ipv6Piece(s, p, p + HexRun(s, p), pieces, compress)

\* A leading colon has to be the first of two
Ipv6Start(s) ==
    IF s # <<>> /\ s[1] = ":"
    THEN IF Len(s) >= 2 /\ s[2] = ":" THEN Ipv6Loop(s, 3, <<0>>, 1)
         ELSE Ipv6Failure
    ELSE Ipv6Loop(s, 1, <<>>, 0)

\* The eight pieces of the address: zeros take the place of the "::"
Ipv6Pieces(parsed) ==
    IF parsed.compress = 0 THEN parsed.pieces
    ELSE SubSeq(parsed.pieces, 1, parsed.compress)
            \o [i \in 1..(8 - Len(parsed.pieces)) |-> 0]
            \o SubSeq(parsed.pieces, parsed.compress + 1, Len(parsed.pieces))

\* The number of zero pieces from position i on
ZeroRun(a, i) ==
    SetMax({ n \in 0..(Len(a) + 1 - i) : \A j \in i..(i + n - 1) : a[j] = 0 })

LongestZeroRun(a) == SetMax({ ZeroRun(a, i) : i \in DOMAIN a })

FirstLongestZeroRun(a) ==
    SetMin({ i \in DOMAIN a : ZeroRun(a, i) = LongestZeroRun(a) })

RECURSIVE JoinHex(_)
JoinHex(a) ==
    IF a = <<>> THEN <<>>
    ELSE IF Len(a) = 1 THEN HexText(a[1])
    ELSE HexText(a[1]) \o <<":">> \o JoinHex(Tail(a))

\* The IPv6 serializer: the first longest run of two or more zero pieces is
\* written "::"
Ipv6Text(a) ==
    IF LongestZeroRun(a) < 2 THEN JoinHex(a)
    ELSE JoinHex(SubSeq(a, 1, FirstLongestZeroRun(a) - 1))
            \o <<":", ":">>
            \o JoinHex(SubSeq(a, FirstLongestZeroRun(a) + LongestZeroRun(a),
                              Len(a)))

Ipv6Address(parsed) ==
    IF parsed.failed THEN HostFailure
    ELSE IF parsed.compress = 0 /\ Len(parsed.pieces) # 8 THEN HostFailure
    ELSE [failed |-> FALSE,
          host |-> <<"[">> \o Ipv6Text(Ipv6Pieces(parsed)) \o <<"]">>]

\* A host that starts with "[" has to end with "]" and hold an IPv6 address
BracketHost(text) ==
    IF text[Len(text)] # "]" THEN HostFailure
    ELSE Ipv6Address(Ipv6Start(SubSeq(text, 2, Len(text) - 1)))

\* An opaque host is kept as written
OpaqueHost(text) ==
    IF \E i \in DOMAIN text : text[i] \in ForbiddenHostChars THEN HostFailure
    ELSE [failed |-> FALSE, host |-> text]

PunycodePrefix == <<"x","n","-","-">>

\* A domain, already percent-decoded and lower-cased: an IPv4 address when
\* its last part looks like a number
DomainHost(domain) ==
    IF \E i \in DOMAIN domain : domain[i] \in ForbiddenDomainChars
    THEN HostFailure
    ELSE IF \/ \E i \in DOMAIN domain : domain[i] = NonAscii
            \/ \E i \in DOMAIN Split(domain, ".") :
                   StartsWith(Split(domain, ".")[i], PunycodePrefix)
    THEN Unmodelled
    ELSE IF EndsInNumber(Ipv4Parts(domain)) THEN Ipv4Host(Ipv4Parts(domain))
    ELSE [failed |-> FALSE, host |-> domain]

\* The host parser
HostParse(text, opaque) ==
    IF text # <<>> /\ text[1] = "[" THEN BracketHost(text)
    ELSE IF opaque THEN OpaqueHost(text)
    ELSE DomainHost(LowerCase(PercentDecode(text)))

\* The character at position i follows a "[" that no "]" has closed
InsideBrackets(s, i) ==
    LET brackets == { j \in 1..(i - 1) : s[j] \in {"[", "]"} }
    IN  brackets # {} /\ s[SetMax(brackets)] = "["

Localhost == <<"l","o","c","a","l","h","o","s","t">>

\* The URL of a file host that parsed
FileHostUrl(parsed) ==
    IF parsed.failed THEN UrlFailure
    ELSE [threw |-> FALSE, scheme |-> SchemeFile,
          host |-> IF parsed.host = Localhost THEN <<>> ELSE parsed.host,
          port |-> NoPort, origin |-> NullOrigin]

\* The file host state: a drive letter in the place of the host is path, and
\* a host has no port
FileHost(buffer) ==
    IF \/ buffer = <<>>
       \/ Len(buffer) = 2 /\ IsAlpha(buffer[1]) /\ buffer[2] \in {":", "|"}
    THEN [threw |-> FALSE, scheme |-> SchemeFile, host |-> <<>>,
          port |-> NoPort, origin |-> NullOrigin]
    ELSE FileHostUrl(HostParse(buffer, FALSE))

\* A file URL, rest being the text after "file:": a host only after two
\* slashes
FileUrl(rest) ==
    IF Len(rest) >= 2 /\ rest[1] \in {"/", "\\"} /\ rest[2] \in {"/", "\\"}
    THEN FileHost(SubSeq(rest, 3, FirstIn(rest, {"/", "\\", "?", "#"}, 3) - 1))
    ELSE FileHost(<<>>)

\* The parsed URL and its origin
UrlRecord(scheme, parsed, port) ==
    IF parsed.failed THEN UrlFailure
    ELSE [threw |-> FALSE, scheme |-> scheme, host |-> parsed.host,
          port |-> port,
          origin |->
              IF scheme \in TupleOriginSchemes
              THEN scheme \o <<":", "/", "/">> \o parsed.host
                      \o (IF port = NoPort THEN <<>> ELSE <<":">> \o port)
              ELSE NullOrigin]

\* The port state, portNumber being digits without leading zeros
PortState(scheme, hostText, portNumber) ==
    IF Len(portNumber) > 5 THEN UrlFailure
    ELSE IF DecimalValue(portNumber) > 65535 THEN UrlFailure
    ELSE UrlRecord(scheme,
                   HostParse(hostText, scheme \notin TupleOriginSchemes),
                   IF /\ scheme \in TupleOriginSchemes
                      /\ portNumber # <<>>
                      /\ DecimalValue(portNumber) = DefaultPort(scheme)
                   THEN NoPort ELSE portNumber)

\* Host and port text of an authority
HostAndPort(scheme, hostText, portText) ==
    IF scheme \in TupleOriginSchemes /\ hostText = <<>> THEN UrlFailure
    ELSE IF \E i \in DOMAIN portText : ~IsDigit(portText[i]) THEN UrlFailure
    ELSE PortState(scheme, hostText, StripZeros(portText))

\* The host state: the host ends at the first colon outside brackets, and a
\* colon after an empty host is a failure
HostState(scheme, hostport) ==
    LET colons == { i \in DOMAIN hostport :
                       hostport[i] = ":" /\ ~InsideBrackets(hostport, i) }
    IN  IF colons = {} THEN HostAndPort(scheme, hostport, <<>>)
        ELSE IF SetMin(colons) = 1 THEN UrlFailure
        ELSE HostAndPort(scheme,
                         SubSeq(hostport, 1, SetMin(colons) - 1),
                         SubSeq(hostport, SetMin(colons) + 1, Len(hostport)))

\* The authority state: credentials end at the last "@", and credentials
\* with nothing after them are a failure
AuthorityState(scheme, authority) ==
    LET ats == { i \in DOMAIN authority : authority[i] = "@" }
    IN  IF ats = {} THEN HostState(scheme, authority)
        ELSE IF SetMax(ats) = Len(authority) THEN UrlFailure
        ELSE HostState(scheme, Substring(authority, SetMax(ats)))

\* The text after the leading slashes and backslashes
SkipSlashes(rest) ==
    LET others == { i \in DOMAIN rest : rest[i] \notin {"/", "\\"} }
    IN  IF others = {} THEN <<>> ELSE Substring(rest, SetMin(others) - 1)

\* The text after the slashes of a special URL, up to the path
SpecialAuthority(tail) ==
    SubSeq(tail, 1, FirstIn(tail, {"/", "\\", "?", "#"}, 1) - 1)

\* A URL of any scheme but file, rest being the text after the scheme's
\* colon: a special URL has an authority after any number of slashes and
\* backslashes, another URL only after "//"
AuthorityUrl(scheme, rest) ==
    IF scheme \in TupleOriginSchemes
    THEN AuthorityState(scheme,
             SpecialAuthority(SkipSlashes(rest)))
    ELSE IF StartsWith(rest, <<"/", "/">>)
    THEN AuthorityState(scheme,
             SubSeq(rest, 3, FirstIn(rest, {"/", "?", "#"}, 3) - 1))
    ELSE AuthorityState(scheme, <<>>)

\* The scheme state
SchemeState(input, colon) ==
    IF \/ input = <<>>
       \/ colon > Len(input)
       \/ ~IsAlpha(input[1])
       \/ \E i \in 1..(colon - 1) :
              ~(IsAlpha(input[i]) \/ IsDigit(input[i])
                    \/ input[i] \in {"+", "-", "."})
    THEN UrlFailure
    ELSE IF LowerCase(SubSeq(input, 1, colon - 1)) = SchemeFile
    THEN FileUrl(Substring(input, colon))
    ELSE AuthorityUrl(LowerCase(SubSeq(input, 1, colon - 1)),
                      Substring(input, colon))

\* new URL with no base on stripped input, with the origin of every scheme
\* but blob
ParseBasic(input) == SchemeState(input, FirstIn(input, {":"}, 1))

\* The origin of a blob URL is that of the http or https URL its path spells
BlobOrigin(inner) ==
    IF ~inner.threw /\ inner.scheme \in {SchemeHttp, SchemeHttps}
    THEN inner.origin ELSE NullOrigin

\* The text between the scheme's colon and the query or fragment
OpaquePath(input) ==
    SubSeq(input, FirstIn(input, {":"}, 1) + 1,
           FirstIn(input, {"?", "#"}, 1) - 1)

\* The URL the path of a blob URL spells
BlobPathUrl(path) ==
    IF path # <<>> /\ path[Len(path)] = " " THEN Unmodelled
    ELSE ParseBasic(StripInput(path))

WithBlobOrigin(url, input) ==
    IF ~url.threw /\ url.scheme = SchemeBlob
    THEN [url EXCEPT !.origin = BlobOrigin(BlobPathUrl(OpaquePath(input)))]
    ELSE url

ParseStripped(input) == WithBlobOrigin(ParseBasic(input), input)

\* new URL(raw) with no base: the scheme, host and port of the parsed URL and
\* its origin property
ParseUrl(raw) == ParseStripped(StripInput(raw))

\* validateResourceParameter: a TypeError of either constructor is caught
validateResourceParameter(resource, serverBaseUrl) ==
    LET resourceUrl == ParseUrl(resource)
        serverUrl == ParseUrl(serverBaseUrl)
    IN  IF resourceUrl.threw \/ serverUrl.threw THEN FALSE
        ELSE resourceUrl.origin = serverUrl.origin

UrlA == <<"h","t","t","p",":","/","/","a">>

UrlAPath == <<"h","t","t","p",":","/","/","a","/","m","c","p","?","x","#","f">>

UrlAPort80 == <<"h","t","t","p",":","/","/","a",":","8","0","/">>

UrlAPort8080 == <<"h","t","t","p",":","/","/","a",":","8","0","8","0">>

UrlASecure == <<"h","t","t","p","s",":","/","/","a">>

UrlASecure443 == <<"h","t","t","p","s",":","/","/","a",":","4","4","3","/","p">>

UrlAUpper == <<"H","T","T","P",":","/","/","A","/">>

UrlB == <<"h","t","t","p",":","/","/","b">>

UrlFooA == <<"f","o","o",":","/","/","a">>

UrlBarB == <<"b","a","r",":","/","/","b">>

UrlNoScheme == <<"a","/","m","c","p">>

UrlNoHost == <<"h","t","t","p",":","/","/">>

UrlBadPort == <<"h","t","t","p",":","/","/","a",":","x">>

UrlBadHost == <<"h","t","t","p",":","/","/","a"," ","b">>

UrlAPortZeros == <<"h","t","t","p",":","/","/","a",":","0","0","0","0","8","0">>

UrlAUser == <<"h","t","t","p",":","/","/","u","@","a","/">>

UrlFilePort == <<"f","i","l","e",":","/","/","a",":","8","0">>

UrlBracket == <<"h","t","t","p",":","/","/","a","[","b">>

UrlIpShort == <<"h","t","t","p",":","/","/","1","2","7",".","1">>

UrlIp == <<"h","t","t","p",":","/","/","1","2","7",".","0",".","0",".","1">>

UrlIpv6 == <<"h","t","t","p",":","/","/","[","0",":","0",":","0",":","0",":","0",":","0",":","0",":","1","]">>

UrlSamples ==
    { EmptyString, UrlA, UrlAPath, UrlAPort80, UrlAPort8080, UrlASecure,
      UrlASecure443, UrlAUpper, UrlB, UrlFooA, UrlBarB, UrlNoScheme,
      UrlNoHost, UrlBadPort, UrlBadHost, UrlAPortZeros, UrlAUser,
      UrlFilePort, UrlBracket, UrlIpShort, UrlIp, UrlIpv6 }

-----------------------------------------------------------------------------
(* verifyPKCE *)

VerifierA == <<"a">>

VerifierAbc == <<"a","b","c">>

\* The code verifier of RFC 7636, appendix B
VerifierRfc ==
    <<"d","B","j","f","t","J","e","Z","4","C","V","P","-","m","B","9","2",
      "K","2","7","u","h","b","U","J","U","1","p","1","r","_","w","W","1",
      "g","F","W","F","O","E","j","X","k">>

PkceVerifiers == { EmptyString, VerifierA, VerifierAbc, VerifierRfc }

Sha256EmptyBase64 ==
    <<"4","7","D","E","Q","p","j","8","H","B","S","a","+","/","T","I","m",
      "W","+","5","J","C","e","u","Q","e","R","k","m","5","N","M","p","J",
      "W","Z","G","3","h","S","u","F","U","=">>

Sha256ABase64 ==
    <<"y","p","e","B","E","s","o","b","v","c","r","6","w","j","G","z","m",
      "i","P","c","T","a","e","G","7","/","g","U","f","E","5","y","u","Y",
      "B","3","h","a","/","u","S","L","s","=">>

Sha256AbcBase64 ==
    <<"u","n","g","W","v","4","8","B","z","+","p","B","Q","U","D","e","X",
      "a","4","i","I","7","A","D","Y","a","O","W","F","3","q","c","t","B",
      "D","/","Y","f","I","A","F","a","0","=">>

Sha256RfcBase64 ==
    <<"E","9","M","e","l","h","o","a","2","O","w","v","F","r","E","M","T",
      "J","g","u","C","H","a","o","e","K","1","t","8","U","R","W","b","u",
      "G","J","S","s","t","w","+","c","M","=">>

\* createHash("sha256").update(data).digest("base64") for the verifiers of
\* the model
DigestBase64(data) ==
    IF data = EmptyString THEN Sha256EmptyBase64
    ELSE IF data = VerifierA THEN Sha256ABase64
    ELSE IF data = VerifierAbc THEN Sha256AbcBase64
    ELSE Sha256RfcBase64

\* The base64url encoding: - for +, _ for /, no padding
Base64Url(text) ==
    LET unpadded == SelectSeq(text, LAMBDA ch : ch # "=")
    IN  [i \in DOMAIN unpadded |->
            IF unpadded[i] = "+" THEN "-"
            ELSE IF unpadded[i] = "/" THEN "_"
            ELSE unpadded[i]]

\* Mutant: the digest is taken in the standard alphabet, with padding
DigestBase64Url_Padded(data) == DigestBase64(data)

\* createHash("sha256").update(data).digest("base64url")
DigestBase64Url(data) == Base64Url(DigestBase64(data))

verifyPKCE(codeChallenge, codeVerifier) ==
    LET hash == DigestBase64Url(codeVerifier)
    IN  codeChallenge = hash

ChallengeEmpty ==
    <<"4","7","D","E","Q","p","j","8","H","B","S","a","-","_","T","I","m",
      "W","-","5","J","C","e","u","Q","e","R","k","m","5","N","M","p","J",
      "W","Z","G","3","h","S","u","F","U">>

ChallengeA ==
    <<"y","p","e","B","E","s","o","b","v","c","r","6","w","j","G","z","m",
      "i","P","c","T","a","e","G","7","_","g","U","f","E","5","y","u","Y",
      "B","3","h","a","_","u","S","L","s">>

ChallengeAbc ==
    <<"u","n","g","W","v","4","8","B","z","-","p","B","Q","U","D","e","X",
      "a","4","i","I","7","A","D","Y","a","O","W","F","3","q","c","t","B",
      "D","_","Y","f","I","A","F","a","0">>

ChallengeRfc ==
    <<"E","9","M","e","l","h","o","a","2","O","w","v","F","r","E","M","T",
      "J","g","u","C","H","a","o","e","K","1","t","8","U","R","W","b","u",
      "G","J","S","s","t","w","-","c","M">>

\* Code challenges: none, the four S256 challenges, and the digests in the
\* standard alphabet with padding
PkceChallenges ==
    { EmptyString, ChallengeEmpty, ChallengeA, ChallengeAbc, ChallengeRfc,
      Sha256EmptyBase64, Sha256ABase64, Sha256AbcBase64, Sha256RfcBase64 }

-----------------------------------------------------------------------------
(* The validators called on their own *)

AudienceTokens == Tokens \cup { TokJwtSlash, TokJwtUrlSafe, TokJwtNoAud }

ExpectedAudiences == { "http://a", "x", "?" }

PureInit ==
    /\ env \in Environments
    /\ mcpDebugToken = Undefined
    /\ BaselineConfig
    /\ call = IdleCall
    /\ callB = IdleCall
    /\ envB = env
    /\ dbgB = mcpDebugToken
    /\ fnIn = NoCall
    /\ fnOut = NoCall

PureFrame == UNCHANGED <<env, mcpDebugToken, call, callB, envB, dbgB>>

CallValidateResourceParameter ==
    /\ fnIn = NoCall
    /\ \E resource \in UrlSamples, serverBaseUrl \in UrlSamples :
           /\ fnIn' = [fn |-> "validateResourceParameter",
                       args |-> <<resource, serverBaseUrl>>]
           /\ fnOut' = [fn |-> "validateResourceParameter",
                        value |-> validateResourceParameter(resource,
                                                            serverBaseUrl)]
    /\ PureFrame

CallValidateTokenAudience ==
    /\ fnIn = NoCall
    /\ \E token \in AudienceTokens, expectedAudience \in ExpectedAudiences :
           /\ fnIn' = [fn |-> "validateTokenAudience",
                       args |-> <<token, expectedAudience>>]
           /\ fnOut' = [fn |-> "validateTokenAudience",
                        value |-> validateTokenAudience(token,
                                                        expectedAudience)]
    /\ PureFrame

CallVerifyPKCE ==
    /\ fnIn = NoCall
    /\ \E codeChallenge \in PkceChallenges, codeVerifier \in PkceVerifiers :
           /\ fnIn' = [fn |-> "verifyPKCE",
                       args |-> <<codeChallenge, codeVerifier>>]
           /\ fnOut' = [fn |-> "verifyPKCE",
                        value |-> verifyPKCE(codeChallenge, codeVerifier)]
    /\ PureFrame

PureNext ==
    \/ CallValidateResourceParameter
    \/ CallValidateTokenAudience
    \/ CallVerifyPKCE

PureSpec == PureInit /\ [][PureNext]_vars

\* The state outside the validator's own arguments and result is as at the
\* start
NoOtherEffect ==
    /\ env = envB
    /\ mcpDebugToken = dbgB
    /\ call = IdleCall
    /\ callB = IdleCall

-----------------------------------------------------------------------------
(* C14 *)

\* C14: validateResourceParameter(r, s) is true exactly when r and s both
\* parse and have the same scheme, host and port, whatever their path, query
\* and fragment; it is false when either does not parse.
C14_SameOriginOnly ==
    fnIn.fn = "validateResourceParameter" =>
        LET r == ParseUrl(fnIn.args[1])
            s == ParseUrl(fnIn.args[2])
        IN  fnOut.value =
                (/\ ~r.threw
                 /\ ~s.threw
                 /\ r.scheme = s.scheme
                 /\ r.host = s.host
                 /\ r.port = s.port)

\* Two URLs of different scheme and host were accepted as the same origin
C14_OpaqueOriginsAccepted ==
    /\ fnIn.fn = "validateResourceParameter"
    /\ fnIn.args = <<UrlFooA, UrlBarB>>
    /\ fnOut.value = TRUE

-----------------------------------------------------------------------------
(* C15 *)

\* The S256 code challenge of a verifier
ExpectedChallenge(verifier) ==
    IF verifier = EmptyString THEN ChallengeEmpty
    ELSE IF verifier = VerifierA THEN ChallengeA
    ELSE IF verifier = VerifierAbc THEN ChallengeAbc
    ELSE ChallengeRfc

\* C15: verifyPKCE(challenge, verifier) is true exactly when challenge is the
\* unpadded base64url text of the SHA-256 digest of verifier, the empty
\* verifier included, and the call changes nothing but its result.
C15_ChallengeMatchesDigest ==
    fnIn.fn = "verifyPKCE" =>
        /\ fnOut.value = (fnIn.args[1] = ExpectedChallenge(fnIn.args[2]))
        /\ NoOtherEffect

C15_Witness ==
    /\ fnIn.fn = "verifyPKCE"
    /\ fnIn.args = <<ChallengeEmpty, EmptyString>>
    /\ fnOut.value = TRUE

-----------------------------------------------------------------------------
(* C17 *)

\* The token has exactly three dot-separated parts
ThreeDotParts(token) ==
    Cardinality({ i \in DOMAIN token : token[i] = "." }) = 2

\* Three-part tokens whose payload segment is not base64 of a JSON text
UndecodablePayload == { TokJwt, TokEmptySeg, TokYaThree, TokJwtUrlSafe }

\* The audiences named by the aud claim of a decodable payload
AudClaim(token) ==
    IF token \in {TokJwtAud, TokJwtExp} THEN {"http://a"}
    ELSE IF token = TokJwtOther THEN {"x"}
    ELSE IF token = TokJwtList THEN {"x", "http://a"}
    ELSE IF token = TokJwtSlash THEN {"?"}
    ELSE {}

\* C17: validateTokenAudience(token, expected) is true for every token that
\* has not exactly three parts; for a three-part token it is true exactly
\* when the decoded aud equals expected or lists it, and false, never an
\* exception, when the payload cannot be decoded.
C17_AudienceContract ==
    fnIn.fn = "validateTokenAudience" =>
        fnOut.value =
            (IF ~ThreeDotParts(fnIn.args[1]) THEN TRUE
             ELSE IF fnIn.args[1] \in UndecodablePayload THEN FALSE
             ELSE fnIn.args[2] \in AudClaim(fnIn.args[1]))

C17_Witness ==
    /\ fnIn.fn = "validateTokenAudience"
    /\ fnIn.args = <<TokJwtList, "http://a">>
    /\ fnOut.value = TRUE

====
